---- MODULE Spec2Model ----
(***************************************************************************)
(* Model of nilmtk/stats/goodsectionsresults.py: GoodSectionsResults, the  *)
(* accumulator of per-chunk "good sections" and its merge (combined) and   *)
(* cache codec (export_to_cache / import_from_cache).                      *)
(*                                                                         *)
(* Timestamps are small naturals.  TimeFrame objects live in a heap and    *)
(* are referred to by their handle (index in the heap), because combined() *)
(* updates TimeFrame objects in place and the lists of the chunk records   *)
(* and the list it returns share them.                                     *)
(***************************************************************************)
EXTENDS Integers, Sequences, FiniteSets, TLC

\* ------------------------------------------------------------------ bounds
MaxTime == 4          \* timestamps are 0..MaxTime
MaxPeriod == 1        \* max_sample_period is 0 or MaxPeriod
MaxChunks == 3        \* chunk records appended to one accumulator
MaxCacheRows == 2     \* rows of a cached table handed to import_from_cache
MaxCacheTime == 2     \* timestamps of such a table are 0..MaxCacheTime

\* ------------------------------------------------------- values and helpers
None == -1            \* Python None: an unbounded start or end
NaT == -2             \* pandas NaT: the not-a-time sentinel of the cache

Last(s) == s[Len(s)]


\* An element of a `sections` list: the handle of a TimeFrame object, or a
\* nested Python list of handles.
Handle(id) == [kind |-> "tf", id |-> id, items |-> <<>>]
ListItem(ids) == [kind |-> "list", id |-> 0, items |-> ids]

convert_none_to_nat(t) == IF t = None THEN NaT ELSE t
convert_nat_to_none(t) == IF t = NaT THEN None ELSE t

\* A TimeFrame object as constructed: a not-a-time bound is unbounded, and
\* include_end defaults to False.
TimeFrame(s, e) ==
    [start |-> convert_nat_to_none(s), end |-> convert_nat_to_none(e),
     include_end |-> FALSE]

\* TimeFrame.end setter refuses an end before the start (ValueError).
EndOutOfOrder(tf, e) == e # None /\ tf.start # None /\ e < tf.start
\* TimeFrame.start setter refuses a start after the end (ValueError).
StartOutOfOrder(tf, s) == s # None /\ tf.end # None /\ s > tf.end

VARIABLES
    max_sample_period,  \* self.max_sample_period_td
    data,               \* self._data: sequence of chunk records
    heap,               \* the TimeFrame objects, by handle
    op,                 \* the operation that ran last
    err,                \* the error it raised, or "none"
    ret,                \* handles returned by the last combined()
    cached,             \* cached_stat given to the last import_from_cache
    known,              \* sections (chunk boundaries) given to it
    cache,              \* table returned by the last export_to_cache
    warned,             \* warnings the last operation emitted
    rt,                 \* outcome of the last cache round trip
    appended            \* the arguments of the append calls a recorded run made

vars == <<max_sample_period, data, heap, op, err, ret,
          cached, known, cache, warned, rt, appended>>

\* ------------------------------------------------------------------ append
\* Results.append: one record per chunk, in the caller's order.
ResultsAppend(d, timeframe, new_results) ==
    Append(d, [key |-> timeframe[1], end |-> timeframe[2],
               sections |-> new_results.sections])

\* The lists of sections a detection pass may report for chunk [k, e]:
\* ordered, non-empty, apart, inside the chunk, only the first start and the
\* last end unbounded.
Section(s, t) == [start |-> s, end |-> t]

RECURSIVE Tails(_, _)
\* Such lists with every start bounded and at lo or later.
Tails(lo, e) ==
    {<<>>}
    \cup {<<Section(s, None)>> : s \in lo..(e - 1)}
    \cup UNION {UNION {{<<Section(s, t)>> \o r : r \in Tails(t + 1, e)}
                       : t \in (s + 1)..e}
                : s \in lo..e}

SectionLists(k, e) ==
    Tails(k, e)
    \cup {<<Section(None, None)>>}
    \cup UNION {{<<Section(None, t)>> \o r : r \in Tails(t + 1, e)}
                : t \in (k + 1)..e}

\* Allocate the TimeFrame objects of a list of (start, end) pairs.
Alloc(h, secs) == h \o [j \in 1..Len(secs) |-> TimeFrame(secs[j].start, secs[j].end)]
Handles(h, secs) == [j \in 1..Len(secs) |-> Handle(Len(h) + j)]

\* --------------------------------------------------------------- combined()
\* Adjacent with the upper comparison made strict.
AdjacentStrict(prev, index, p) == prev - p <= index /\ index < prev

\* previous.end - max_sample_period <= next.start <= previous.end
Adjacent(prev, index, p) == prev - p <= index /\ index <= prev

SetEnd(h, id, e) == [h EXCEPT ![id].end = e]
SetStart(h, id, s) == [h EXCEPT ![id].start = s]

\* Lines 59-74 of one loop iteration, after the stitch test.
CloseAndOpen(st, i) ==
    LET row == st.data[i]
        rs == row.sections
        secs == st.sections
        h1 == IF secs # <<>> /\ st.heap[Last(secs)].end = None
                 /\ ~EndOutOfOrder(st.heap[Last(secs)], st.prev)
              THEN SetEnd(st.heap, Last(secs), st.prev)
              ELSE st.heap
    IN  IF rs # <<>> /\ rs[1].kind # "tf"
        THEN [st EXCEPT !.heap = h1, !.err = "AttributeError"]
        ELSE LET h2 == IF rs # <<>> /\ h1[rs[1].id].start = None
                          /\ ~StartOutOfOrder(h1[rs[1].id], row.key)
                       THEN SetStart(h1, rs[1].id, row.key)
                       ELSE h1
             IN [st EXCEPT !.heap = h2,
                           !.prev = row.end,
                           !.sections = secs \o [j \in 1..Len(rs) |-> rs[j].id]]

\* The stitch without the assertion of line 55.
StitchNoAssert(st, i) ==
    LET rs == st.data[i].sections
        secs == st.sections
    IN  IF secs = <<>> THEN [st EXCEPT !.err = "IndexError"]
        ELSE IF EndOutOfOrder(st.heap[Last(secs)], st.heap[rs[1].id].end)
        THEN [st EXCEPT !.err = "ValueError"]
        ELSE CloseAndOpen(
               [st EXCEPT !.heap = SetEnd(st.heap, Last(secs), st.heap[rs[1].id].end),
                          !.data[i].sections = Tail(rs)], i)

\* Lines 51-57: the stitch of the row's first TimeFrame onto sections[-1].
Stitch(st, i) ==
    LET rs == st.data[i].sections
        secs == st.sections
    IN  IF secs = <<>> THEN [st EXCEPT !.err = "IndexError"]
        ELSE IF st.heap[Last(secs)].end # None
        THEN [st EXCEPT !.err = "AssertionError"]
        ELSE IF EndOutOfOrder(st.heap[Last(secs)], st.heap[rs[1].id].end)
        THEN [st EXCEPT !.err = "ValueError"]
        ELSE CloseAndOpen(
               [st EXCEPT !.heap = SetEnd(st.heap, Last(secs), st.heap[rs[1].id].end),
                          !.data[i].sections = Tail(rs)], i)

\* One iteration of the loop over self._data.iterrows().
RowStep(st, i) ==
    LET row == st.data[i]
        rs == row.sections
        inWindow == st.prev # None /\ Adjacent(st.prev, row.key, st.msp)
    IN  IF st.err # "none" THEN st
        ELSE IF ~inWindow THEN CloseAndOpen(st, i)
        ELSE IF rs = <<>> THEN [st EXCEPT !.err = "IndexError"]
        ELSE IF rs[1].kind # "tf" THEN [st EXCEPT !.err = "AttributeError"]
        ELSE IF st.heap[rs[1].id].start = None THEN Stitch(st, i)
        ELSE CloseAndOpen(st, i)

RECURSIVE Loop(_, _)
\* The state of the loop after its first n iterations.
Loop(st, n) == IF n = 0 THEN st ELSE RowStep(Loop(st, n - 1), n)

\* Finish without line 77: include_end is left as it was.
FinishKeepFlag(st) ==
    IF st.err # "none" \/ st.sections = <<>> THEN st
    ELSE LET id == Last(st.sections)
         IN IF st.heap[id].end # None THEN st
            ELSE IF EndOutOfOrder(st.heap[id], st.prev)
            THEN [st EXCEPT !.err = "ValueError"]
            ELSE [st EXCEPT !.heap = SetEnd(st.heap, id, st.prev)]

\* Lines 76-79: after the loop.
Finish(st) ==
    IF st.err # "none" \/ st.sections = <<>> THEN st
    ELSE LET id == Last(st.sections)
             h1 == [st.heap EXCEPT ![id].include_end = TRUE]
         IN IF h1[id].end # None THEN [st EXCEPT !.heap = h1]
            ELSE IF EndOutOfOrder(h1[id], st.prev)
            THEN [st EXCEPT !.heap = h1, !.err = "ValueError"]
            ELSE [st EXCEPT !.heap = SetEnd(h1, id, st.prev)]

LoopInit(d, h, p) ==
    [data |-> d, heap |-> h, msp |-> p, sections |-> <<>>, prev |-> None,
     err |-> "none"]

CombinedOp(d, h, p) == Finish(Loop(LoopInit(d, h, p), Len(d)))

\* The values of the TimeFrames a call returned.
Vals(h, ids) == [j \in 1..Len(ids) |-> h[ids[j]]]

\* ---------------------------------------------------------- export_to_cache
\* The rows of chunk record i with the bounds written as they are.
RowsOfRaw(d, h, i) ==
    [j \in 1..Len(d[i].sections) |->
        [index |-> d[i].key,
         end |-> d[i].end,
         section_start |-> h[d[i].sections[j].id].start,
         section_end |-> h[d[i].sections[j].id].end]]

\* Lines 132-137: the rows of chunk record i; section.start of a nested list
\* is an AttributeError.
RowsOf(d, h, i) ==
    [j \in 1..Len(d[i].sections) |->
        [index |-> d[i].key,
         end |-> d[i].end,
         section_start |-> convert_none_to_nat(h[d[i].sections[j].id].start),
         section_end |-> convert_none_to_nat(h[d[i].sections[j].id].end)]]

RECURSIVE ExportRows(_, _, _)
ExportRows(d, h, n) ==
    IF n = 0 THEN <<>> ELSE ExportRows(d, h, n - 1) \o RowsOf(d, h, n)

HasNested(d) ==
    \E i \in 1..Len(d) : \E j \in 1..Len(d[i].sections) :
        d[i].sections[j].kind # "tf"

ExportOp(d, h) ==
    IF HasNested(d) THEN [rows |-> <<>>, err |-> "AttributeError"]
    ELSE [rows |-> ExportRows(d, h, Len(d)), err |-> "none"]

\* -------------------------------------------------------- import_from_cache
\* cached_stat.groupby(level=0): the rows of one index, in table order.
Group(c, name) == SelectSeq(c, LAMBDA r : r.index = name)
GroupNames(c) == {c[j].index : j \in 1..Len(c)}

\* The assertion weakened to "the group has some end".
GroupEndsAgreeSome(group) ==
    Cardinality({group[j].end : j \in 1..Len(group)}) >= 1

\* group['end'].unique().size == 1
GroupEndsAgree(group) ==
    Cardinality({group[j].end : j \in 1..Len(group)}) = 1

\* The membership test comparing the chunk's start only.
TimeFrameInByStart(timeframe, sections) ==
    \E f \in sections : f[1] = timeframe[1]

\* timeframe in sections: TimeFrames are equal when start and end are.
TimeFrameIn(timeframe, sections) == timeframe \in sections

\* Lines 113-118 for one group.
ImportGroup(st, c, sections, name) ==
    LET group == Group(c, name)
        timeframe == <<name, group[1].end>>
        timeframes == [j \in 1..Len(group) |->
                          [start |-> group[j].section_start,
                           end |-> group[j].section_end]]
    IN  IF ~GroupEndsAgree(group) THEN [st EXCEPT !.err = "AssertionError"]
        ELSE IF ~TimeFrameIn(timeframe, sections) THEN st
        ELSE [st EXCEPT
                !.heap = Alloc(st.heap, timeframes),
                !.data = ResultsAppend(st.data, timeframe,
                    [sections |->
                        <<ListItem([j \in 1..Len(group) |-> Len(st.heap) + j])>>])]

RECURSIVE ImportLoop(_, _, _, _)
\* The groups come in ascending order of their name.
ImportLoop(st, c, sections, names) ==
    IF names = {} \/ st.err # "none" THEN st
    ELSE LET name == CHOOSE n \in names : \A m \in names : n <= m
         IN ImportLoop(ImportGroup(st, c, sections, name), c, sections,
                       names \ {name})

ImportOp(d, h, c, sections) ==
    ImportLoop([data |-> d, heap |-> h, err |-> "none"], c, sections,
               GroupNames(c))

\* The chunk boundaries of an accumulator.
Boundaries(d) == {<<d[i].key, d[i].end>> : i \in 1..Len(d)}

\* Cached tables a run may find on disk, consistent or not: the rows of a
\* chunk key are together, as export_to_cache writes them.
CacheFrames == {f \in (0..MaxCacheTime) \X (0..MaxCacheTime) : f[1] < f[2]}
CacheRows ==
    UNION {[index : {f[1]}, end : {f[2]}, section_start : {NaT, f[1]},
            section_end : {NaT, f[2]}] : f \in CacheFrames}
CacheTables ==
    UNION {{c \in [1..n -> CacheRows] :
               \A j \in 1..(n - 1) : c[j].index <= c[j+1].index}
           : n \in 0..MaxCacheRows}

\* The chunk boundaries a run may intend to process: no two overlap.
KnownSets ==
    {K \in SUBSET CacheFrames :
        \A f \in K, g \in K : f = g \/ f[2] <= g[1] \/ g[2] <= f[1]}

\* -------------------------------------------------------------------- unify
\* Names bound in the module's namespace by lines 1-8.
ModuleGlobals ==
    {"pd", "timedelta", "plt", "Results", "SECS_PER_DAY", "TimeFrame",
     "convert_none_to_nat", "GoodSectionsResults"}

\* Results.unify: leaves the accumulator as it is.
ResultsUnify(d, other) == d

UnifyOp(d, other) ==
    IF "warn" \notin ModuleGlobals
    THEN [data |-> d, err |-> "NameError", warned |-> <<>>]
    ELSE [data |-> ResultsUnify(d, other), err |-> "none",
          warned |-> <<"Not yet able to do unification of good sections results.">>]

\* ------------------------------------------------------------------ actions
NoRt == [done |-> FALSE, origErr |-> "none", orig |-> <<>>,
         copyErr |-> "none", copy |-> <<>>]

\* GoodSectionsResults(max_sample_period): no tolerance, or the largest.
Init ==
    /\ max_sample_period \in {0, MaxPeriod}
    /\ data = <<>>
    /\ heap = <<>>
    /\ op = "init"
    /\ err = "none"
    /\ ret = <<>>
    /\ cached = <<>>
    /\ known = {}
    /\ cache = <<>>
    /\ warned = <<>>
    /\ rt = NoRt
    /\ appended = <<>>

\* append(timeframe, {'sections': [...]}) by the detection pass, chunks in
\* ascending order without overlap; time is counted from the first chunk.
\* The table for the cache is written when the run's chunks are all in.
AppendStep(record) ==
    /\ Len(data) < MaxChunks
    /\ op \notin {"export", "roundtrip"}
    /\ \E k \in 0..MaxTime, e \in 0..MaxTime :
         /\ k < e
         /\ data = <<>> => k = 0
         /\ data # <<>> => Last(data).end <= k
         /\ \E secs \in SectionLists(k, e) :
              /\ heap' = Alloc(heap, secs)
              /\ data' = ResultsAppend(data, <<k, e>>,
                                       [sections |-> Handles(heap, secs)])
              /\ appended' = IF record
                              THEN Append(appended, [timeframe |-> <<k, e>>,
                                                     sections |-> secs])
                              ELSE appended
    /\ op' = "append"
    /\ err' = "none"
    /\ ret' = <<>>
    /\ cached' = <<>> /\ known' = {} /\ cache' = <<>> /\ warned' = <<>>
    /\ rt' = NoRt
    /\ UNCHANGED max_sample_period

DoAppend == AppendStep(FALSE)

\* The same call in a run that keeps the arguments of its append calls.
DoAppendRecorded == AppendStep(TRUE)

DoCombined ==
    /\ LET st == CombinedOp(data, heap, max_sample_period)
       IN /\ data' = st.data
          /\ heap' = st.heap
          /\ err' = st.err
          /\ ret' = IF st.err = "none" THEN st.sections ELSE <<>>
    /\ op' = "combined"
    /\ cached' = <<>> /\ known' = {} /\ cache' = <<>> /\ warned' = <<>>
    /\ rt' = NoRt
    /\ UNCHANGED <<max_sample_period, appended>>

\* unify(other); other is another accumulator of the same chunks.
DoUnify ==
    /\ \E other \in {<<>>, data} :
         LET r == UnifyOp(data, other)
         IN /\ data' = r.data
            /\ err' = r.err
            /\ warned' = r.warned
    /\ op' = "unify"
    /\ ret' = <<>>
    /\ cached' = <<>> /\ known' = {} /\ cache' = <<>>
    /\ rt' = NoRt
    /\ UNCHANGED <<max_sample_period, heap, appended>>

DoExportToCache ==
    /\ LET r == ExportOp(data, heap)
       IN /\ cache' = r.rows
          /\ err' = r.err
    /\ op' = "export"
    /\ ret' = <<>>
    /\ cached' = <<>> /\ known' = {} /\ warned' = <<>>
    /\ rt' = NoRt
    /\ UNCHANGED <<max_sample_period, data, heap, appended>>

\* import_from_cache(cached_stat, sections) on a newly constructed accumulator.
DoImportFromCache ==
    /\ op = "init"
    /\ \E c \in CacheTables, sections \in KnownSets :
         LET st == ImportOp(data, heap, c, sections)
         IN /\ data' = st.data
            /\ heap' = st.heap
            /\ err' = st.err
            /\ cached' = c
            /\ known' = sections
    /\ op' = "import"
    /\ ret' = <<>>
    /\ cache' = <<>> /\ warned' = <<>>
    /\ rt' = NoRt
    /\ UNCHANGED <<max_sample_period, appended>>

\* The cache round trip: export_to_cache(), import_from_cache() of the table
\* into a new accumulator with this accumulator's chunk boundaries, then
\* combined() on the new accumulator and on this one.
DoRoundTrip ==
    /\ data # <<>>
    /\ LET e == ExportOp(data, heap)
           imp == ImportOp(<<>>, heap, e.rows, Boundaries(data))
           copy == IF e.err # "none" THEN [imp EXCEPT !.err = e.err]
                   ELSE IF imp.err # "none" THEN imp
                   ELSE CombinedOp(imp.data, imp.heap, max_sample_period)
           orig == CombinedOp(data, heap, max_sample_period)
       IN /\ data' = orig.data
          /\ heap' = orig.heap
          /\ err' = orig.err
          /\ ret' = IF orig.err = "none" THEN orig.sections ELSE <<>>
          /\ rt' = [done |-> TRUE,
                    origErr |-> orig.err,
                    orig |-> IF orig.err = "none"
                             THEN Vals(orig.heap, orig.sections) ELSE <<>>,
                    copyErr |-> copy.err,
                    copy |-> IF copy.err = "none"
                             THEN Vals(copy.heap, copy.sections) ELSE <<>>]
    /\ op' = "roundtrip"
    /\ cached' = <<>> /\ known' = {} /\ cache' = <<>> /\ warned' = <<>>
    /\ UNCHANGED <<max_sample_period, appended>>

\* A run of the detection passes: chunks are appended and merged.
Next ==
    \/ DoAppend
    \/ DoCombined
    \/ DoExportToCache
    \/ DoRoundTrip

Spec == Init /\ [][Next]_vars

\* A run that starts from a cached table.
NextCache ==
    \/ DoImportFromCache
    \/ DoCombined
    \/ DoExportToCache
    \/ DoUnify

SpecCache == Init /\ [][NextCache]_vars

\* A run that calls combined() between the appends, its appends recorded.
NextInterleaved ==
    \/ DoAppendRecorded
    \/ DoCombined

SpecInterleaved == Init /\ [][NextInterleaved]_vars

\* ----------------------------------------------------------------- claims
\* The claims about one combined() call are about its step: the unprimed
\* variables are the accumulator the call starts from, the primed ones the
\* accumulator, the error and the returned handles it ends with.

\* Row i ends with an open-ended TimeFrame and row i+1 begins with an
\* open-started TimeFrame that has an end.
OpenAcross(i) ==
    /\ i \in 1..(Len(data) - 1)
    /\ data[i].sections # <<>>
    /\ Last(data[i].sections).kind = "tf"
    /\ heap[Last(data[i].sections).id].end = None
    /\ data[i+1].sections # <<>>
    /\ data[i+1].sections[1].kind = "tf"
    /\ heap[data[i+1].sections[1].id].start = None
    /\ heap[data[i+1].sections[1].id].end # None

\* The start of row i's trailing TimeFrame, the chunk's key when unbounded.
StartOfTrailing(i) ==
    LET tf == heap[Last(data[i].sections).id]
    IN IF tf.start = None THEN data[i].key ELSE tf.start

\* C1: a second combined() with no append in between completes without
\* error and returns a sequence equal to the one the first call returned.
C1_Idempotent ==
    [][(op = "combined" /\ err = "none" /\ op' = "combined")
         => (err' = "none" /\ Vals(heap', ret') = Vals(heap, ret))]_vars

\* C2: chunk A ends at T with an open-ended last interval, chunk B starts at
\* T + d with 0 <= d <= max_sample_period and begins with an open-started
\* interval ending at U: combined() returns one interval from the start of
\* A's interval to U, and B's interval is not a second one.
C2_AdjacencyMerge ==
    [][op' = "combined" =>
        \A i \in 1..(Len(data) - 1) :
          (/\ OpenAcross(i)
           /\ data[i+1].key - data[i].end \in 0..max_sample_period)
          => /\ err' = "none"
             /\ \A j \in 1..Len(ret') : ret'[j] # data[i+1].sections[1].id
             /\ \E j \in 1..Len(ret') :
                   /\ heap'[ret'[j]].end = heap[data[i+1].sections[1].id].end
                   /\ heap'[ret'[j]].start # None
                   /\ heap'[ret'[j]].start <= StartOfTrailing(i)]_vars

\* C3: the accumulator rebuilt by import_from_cache(export_to_cache(acc),
\* chunk boundaries of acc) combines without error to the same intervals as
\* acc does.
C3_CacheRoundTrip ==
    (rt.done /\ rt.origErr = "none")
        => (rt.copyErr = "none" /\ rt.copy = rt.orig)

\* C4: unify(other) emits a warning and returns normally.
C4_UnifyNonFatal ==
    op = "unify" => (err = "none" /\ warned # <<>>)

\* The state of the loop of combined() before row i.
Before(i) == Loop(LoopInit(data, heap, max_sample_period), i - 1)

\* The case of C5 at row i: a previous row, the key inside the window, the
\* last merged interval open-ended, the row's first interval open-started
\* with an end.
StitchCase(i) ==
    /\ i \in 2..Len(data)
    /\ LET b == Before(i)
           rs == b.data[i].sections
       IN /\ b.err = "none"
          /\ b.prev # None
          /\ b.prev - max_sample_period <= data[i].key
          /\ data[i].key <= b.prev
          /\ b.sections # <<>>
          /\ b.heap[Last(b.sections)].end = None
          /\ rs # <<>>
          /\ rs[1].kind = "tf"
          /\ b.heap[rs[1].id].start = None
          /\ b.heap[rs[1].id].end # None

\* C5: in that case combined() sets the last merged interval's end to the
\* end U of the row's first interval, and that first interval is dropped: it
\* is neither in the row afterwards nor an element of the output.
C5_BoundaryStitch ==
    [][op' = "combined" =>
        \A i \in 2..Len(data) :
          StitchCase(i) =>
            LET last == Last(Before(i).sections)
                first == Before(i).data[i].sections[1]
            IN /\ heap'[last].end = heap[first.id].end
               /\ \A j \in 1..Len(data'[i].sections) :
                     data'[i].sections[j] # first
               /\ err' = "none" =>
                     /\ \E j \in 1..Len(ret') : ret'[j] = last
                     /\ \A j \in 1..Len(ret') : ret'[j] # first.id]_vars

\* A call has returned one interval that begins in the first chunk and ends
\* inside the second, whose own first interval is gone.
C5_Witness ==
    /\ op = "combined"
    /\ err = "none"
    /\ Len(ret) = 1
    /\ Len(data) = 2
    /\ data[2].key = data[1].end
    /\ data[1].sections = <<Handle(ret[1])>>
    /\ data[2].sections = <<>>
    /\ heap[ret[1]].start > data[1].key
    /\ heap[ret[1]].end > data[2].key
    /\ heap[ret[1]].end < data[2].end

\* C6: chunk A ends at T with an open-ended last interval, chunk B starts at
\* T + d with d > max_sample_period and begins with an open-started interval
\* ending at U: combined() returns two separate intervals, the first with
\* end T, the next with start B's key and end U.
C6_GapNonMerge ==
    [][op' = "combined" =>
        \A i \in 1..(Len(data) - 1) :
          (/\ OpenAcross(i)
           /\ data[i+1].key - data[i].end > max_sample_period)
          => /\ err' = "none"
             /\ \E j \in 1..(Len(ret') - 1) :
                   /\ heap'[ret'[j]].end = data[i].end
                   /\ heap'[ret'[j+1]].start = data[i+1].key
                   /\ heap'[ret'[j+1]].end
                         = heap[data[i+1].sections[1].id].end]_vars

\* C7: the last interval of a non-empty sequence returned by combined() has
\* include_end = true.
C7_FinalInclusivity ==
    (op \in {"combined", "roundtrip"} /\ err = "none" /\ ret # <<>>)
        => heap[Last(ret)].include_end

C7_Witness ==
    /\ op = "combined"
    /\ err = "none"
    /\ Len(ret) >= 2
    /\ ~heap[ret[1]].include_end
    /\ heap[Last(ret)].include_end

\* The rows of a cached group disagree on `end`.
Disagree(name) ==
    \E j, k \in 1..Len(cached) :
        /\ cached[j].index = name
        /\ cached[k].index = name
        /\ cached[j].end # cached[k].end

\* C8: import_from_cache appends no record for a cached group whose
\* (key, end) boundary is not among the known chunk boundaries, and such a
\* group is no error.
C8_StaleChunkSkip ==
    op = "import" =>
      /\ \A i \in 1..Len(data) : <<data[i].key, data[i].end>> \in known
      /\ (\A name \in GroupNames(cached) : ~Disagree(name)) => err = "none"

C8_Witness ==
    /\ op = "import"
    /\ err = "none"
    /\ data # <<>>
    /\ \E j \in 1..Len(cached) :
         /\ <<cached[j].index, cached[j].end>> \notin known
         /\ \A i \in 1..Len(data) : data[i].key # cached[j].index

\* C9: when the rows of one cached chunk key do not all carry the same
\* `end`, import_from_cache aborts with an AssertionError and appends no
\* record for that key.
C9_GroupInconsistencyFatal ==
    op = "import" =>
      \A name \in GroupNames(cached) :
        Disagree(name) =>
          /\ err = "AssertionError"
          /\ \A i \in 1..Len(data) : data[i].key # name

C9_Witness ==
    /\ op = "import"
    /\ err = "AssertionError"
    /\ \E name \in GroupNames(cached) :
         /\ Disagree(name)
         /\ \E j \in 1..Len(cached) :
              cached[j].index = name /\ <<name, cached[j].end>> \in known

\* C10: combined() leaves every chunk record's key, `end` and `sections`
\* list (same interval objects in the same order) as they were.
C10_RecordsUnchanged ==
    [][op' = "combined" =>
        /\ Len(data') = Len(data)
        /\ \A i \in 1..Len(data) :
             /\ data'[i].key = data[i].key
             /\ data'[i].end = data[i].end
             /\ data'[i].sections = data[i].sections]_vars

\* The case of C11 at row i: a previous row, the key inside the window, and
\* the row has no interval.
EmptyCase(i) ==
    /\ i \in 2..Len(data)
    /\ LET b == Before(i)
       IN /\ b.err = "none"
          /\ b.prev # None
          /\ b.prev - max_sample_period <= data[i].key
          /\ data[i].key <= b.prev
          /\ b.data[i].sections = <<>>

\* C11: in that case the stitch is skipped: a last merged interval that is
\* still open-ended is closed at the previous row's end, and when the row is
\* the last one combined() completes without error.
C11_EmptyChunkHandled ==
    [][op' = "combined" =>
        \A i \in 2..Len(data) :
          EmptyCase(i) =>
            LET b == Before(i)
            IN /\ (b.sections # <<>> /\ b.heap[Last(b.sections)].end = None)
                     => heap'[Last(b.sections)].end = b.prev
               /\ i = Len(data) => err' = "none"]_vars

RECURSIVE Replay(_, _)
\* The accumulator a new object holds after the first n recorded append
\* calls and nothing else.
Replay(log, n) ==
    IF n = 0 THEN [data |-> <<>>, heap |-> <<>>]
    ELSE LET a == Replay(log, n - 1)
         IN [data |-> ResultsAppend(a.data, log[n].timeframe,
                          [sections |-> Handles(a.heap, log[n].sections)]),
             heap |-> Alloc(a.heap, log[n].sections)]

\* The start and end of the TimeFrames a call returned.
StartsAndEnds(h, ids) ==
    [j \in 1..Len(ids) |-> <<h[ids[j]].start, h[ids[j]].end>>]

\* C12: the result of combined() depends only on the records appended, not
\* on earlier combined() calls: a combined() that follows an append, with
\* combined() calls interleaved between the earlier appends, completes
\* without error and returns intervals with the same starts and ends as one
\* combined() after the same appends alone, whenever that one completes.
C12_InterleavingIrrelevant ==
    [][(op = "append" /\ op' = "combined") =>
        LET a == Replay(appended, Len(appended))
            alone == CombinedOp(a.data, a.heap, max_sample_period)
        IN alone.err = "none" =>
             /\ err' = "none"
             /\ StartsAndEnds(heap', ret')
                   = StartsAndEnds(alone.heap, alone.sections)]_vars

\* The case of C13 at row i: a previous row, the key inside the window, the
\* row's first interval open-started, and the last merged interval closed.
ClosedCase(i) ==
    /\ i \in 2..Len(data)
    /\ LET b == Before(i)
           rs == b.data[i].sections
       IN /\ b.err = "none"
          /\ b.prev # None
          /\ b.prev - max_sample_period <= data[i].key
          /\ data[i].key <= b.prev
          /\ rs # <<>>
          /\ rs[1].kind = "tf"
          /\ b.heap[rs[1].id].start = None
          /\ b.sections # <<>>
          /\ b.heap[Last(b.sections)].end # None

\* C13: in that case combined() aborts with an AssertionError and returns
\* no sequence.
C13_ConsistencyAbort ==
    [][op' = "combined" =>
        \A i \in 2..Len(data) :
          ClosedCase(i) => (err' = "AssertionError" /\ ret' = <<>>)]_vars

\* A call has failed on a chunk that begins open-started right where the
\* chunk before it ends, whose last interval ends before that.
C13_Witness ==
    /\ op = "combined"
    /\ err = "AssertionError"
    /\ ret = <<>>
    /\ \E i \in 2..Len(data) :
         /\ data[i].key = data[i-1].end
         /\ data[i].sections # <<>>
         /\ heap[data[i].sections[1].id].start = None
         /\ data[i-1].sections # <<>>
         /\ heap[Last(data[i-1].sections).id].end # None
         /\ heap[Last(data[i-1].sections).id].end < data[i-1].end

\* C14: after an import that went through, the record of every accepted
\* group holds a flat `sections` list with exactly one interval per cached
\* row of the group, in row order, each the interval of the row's
\* section_start and section_end (not-a-time read as unbounded): the shape
\* a detection pass gives to append.
C14_ImportedShape ==
    (op = "import" /\ err = "none") =>
      \A i \in 1..Len(data) :
        LET group == SelectSeq(cached, LAMBDA r : r.index = data[i].key)
            secs == data[i].sections
        IN /\ Len(secs) = Len(group)
           /\ \A j \in 1..Len(secs) :
                /\ secs[j].kind = "tf"
                /\ heap[secs[j].id].start
                      = convert_nat_to_none(group[j].section_start)
                /\ heap[secs[j].id].end
                      = convert_nat_to_none(group[j].section_end)

\* A well-formed accumulator: chunks in ascending order without overlap,
\* each chunk's sections TimeFrames in order and inside the chunk, only the
\* first start and the last end of a chunk possibly unbounded.
WellFormed ==
    /\ \A i \in 1..Len(data) : data[i].key < data[i].end
    /\ \A i \in 1..(Len(data) - 1) : data[i].end <= data[i+1].key
    /\ \A i \in 1..Len(data) :
         LET secs == data[i].sections
         IN \A j \in 1..Len(secs) :
              /\ secs[j].kind = "tf"
              /\ LET tf == heap[secs[j].id]
                 IN /\ tf.start = None => j = 1
                    /\ tf.end = None => j = Len(secs)
                    /\ tf.start # None => data[i].key <= tf.start
                    /\ tf.end # None => tf.end <= data[i].end
                    /\ (tf.start # None /\ tf.end # None) => tf.start < tf.end
                    /\ j < Len(secs) => tf.end < heap[secs[j+1].id].start

\* C15: when combined() completes on a well-formed accumulator, no two
\* intervals it returns touch within the max_sample_period tolerance across
\* a chunk boundary: where a chunk ends with an open-ended interval and the
\* next chunk begins with an open-started one, the two are not both
\* returned unless the second starts more than max_sample_period after the
\* first ends.
C15_MergedSeparation ==
    [][(op' = "combined" /\ err' = "none" /\ WellFormed) =>
        \A i \in 1..(Len(data) - 1) :
          (/\ data[i].sections # <<>>
           /\ data[i+1].sections # <<>>
           /\ heap[Last(data[i].sections).id].end = None
           /\ heap[data[i+1].sections[1].id].start = None)
          => \A j, k \in 1..Len(ret') :
               (/\ ret'[j] = Last(data[i].sections).id
                /\ ret'[k] = data[i+1].sections[1].id)
               => heap'[ret'[j]].end + max_sample_period
                     < heap'[ret'[k]].start]_vars

RECURSIVE RowsBefore(_)
\* The number of intervals the chunk records before record i hold.
RowsBefore(i) ==
    IF i = 1 THEN 0 ELSE RowsBefore(i - 1) + Len(data[i-1].sections)

\* C16: the table export_to_cache returns has exactly one row per interval
\* of every chunk record, in chunk order and then in-chunk order; each row
\* carries its chunk's key and `end`, so rows sharing a key share the `end`;
\* an unbounded start or end is written as not-a-time; a chunk with no
\* interval contributes no row.
C16_ExportFlattening ==
    (op = "export" /\ err = "none") =>
      /\ Len(cache) = RowsBefore(Len(data) + 1)
      /\ \A i \in 1..Len(data) :
           /\ \A j \in 1..Len(data[i].sections) :
                LET row == cache[RowsBefore(i) + j]
                    tf == heap[data[i].sections[j].id]
                IN /\ row.index = data[i].key
                   /\ row.end = data[i].end
                   /\ row.section_start
                         = IF tf.start = None THEN NaT ELSE tf.start
                   /\ row.section_end = IF tf.end = None THEN NaT ELSE tf.end
           /\ data[i].sections = <<>> =>
                \A r \in 1..Len(cache) : cache[r].index # data[i].key
      /\ \A r, q \in 1..Len(cache) :
           cache[r].index = cache[q].index => cache[r].end = cache[q].end

\* A table has been exported from an accumulator that holds a chunk with
\* several intervals, a chunk with none and an unbounded bound.
C16_Witness ==
    /\ op = "export"
    /\ err = "none"
    /\ Len(cache) >= 2
    /\ \E i \in 1..Len(data) : Len(data[i].sections) >= 2
    /\ \E i \in 1..Len(data) : data[i].sections = <<>>
    /\ \E r \in 1..Len(cache) :
         cache[r].section_start = NaT \/ cache[r].section_end = NaT

\* C17: when combined() completes on a well-formed accumulator, every
\* interval it returns has a start and an end, start <= end; when the last
\* chunk ends with an open-ended interval the last returned interval ends at
\* the last chunk's `end`; and an open-started first interval of the first
\* chunk, or of a chunk more than max_sample_period after the chunk before
\* it, is returned with the chunk's key as its start.
C17_NoOpenBound ==
    [][(op' = "combined" /\ err' = "none" /\ WellFormed) =>
        /\ \A j \in 1..Len(ret') :
             /\ heap'[ret'[j]].start # None
             /\ heap'[ret'[j]].end # None
             /\ heap'[ret'[j]].start <= heap'[ret'[j]].end
        /\ (/\ data # <<>>
            /\ Last(data).sections # <<>>
            /\ heap[Last(Last(data).sections).id].end = None)
           => /\ ret' # <<>>
              /\ heap'[Last(ret')].end = Last(data).end
        /\ \A i \in 1..Len(data) :
             (/\ data[i].sections # <<>>
              /\ heap[data[i].sections[1].id].start = None
              /\ (i = 1 \/ data[i].key - data[i-1].end > max_sample_period))
             => /\ heap'[data[i].sections[1].id].start = data[i].key
                /\ \E j \in 1..Len(ret') :
                      ret'[j] = data[i].sections[1].id]_vars
====
